---- MODULE Spec2Model ----
(***************************************************************************)
(* Model of the docker-to-obsi plugin: the GitHub fetcher (src/github.ts), *)
(* the note synchroniser and note creator (src/obsidian.ts), the text      *)
(* generation adapter (AIService), the selection modal (src/modal.ts) and  *)
(* the two commands of CommandManager.                                     *)
(*                                                                         *)
(* Strings are sequences of tokens.  A token is one character ("a", "$",   *)
(* "\n", ...) or an indivisible piece of text that the code only ever      *)
(* treats as a whole ("FENCE", "yaml title=compose.yaml", "compose.yaml",  *)
(* "{{stackName}}", ...).                                                  *)
(***************************************************************************)
EXTENDS Integers, Sequences, FiniteSets, TLC

----------------------------------------------------------------------------
(* Strings                                                                 *)

NL == "\n"
CR == "\r"
SP == " "
\* three back-ticks (a TLA+ string cannot hold a back-tick)
FENCE == "FENCE"

\* String.prototype.trim strips white space and line terminators.
IsSpace(t) == t \in {SP, NL, CR}

RECURSIVE TrimStart(_)
TrimStart(s) ==
    IF s = <<>> THEN <<>>
    ELSE IF IsSpace(Head(s)) THEN TrimStart(Tail(s))
    ELSE s

RECURSIVE TrimEnd(_)
TrimEnd(s) ==
    IF s = <<>> THEN <<>>
    ELSE IF IsSpace(s[Len(s)]) THEN TrimEnd(SubSeq(s, 1, Len(s) - 1))
    ELSE s

Trim(s) == TrimEnd(TrimStart(s))

\* s.startsWith(p)
StartsWith(s, p) == Len(p) <= Len(s) /\ SubSeq(s, 1, Len(p)) = p

\* whether pat occurs in s at index i
OccursAt(s, pat, i) ==
    /\ i >= 1
    /\ i + Len(pat) - 1 <= Len(s)
    /\ SubSeq(s, i, i + Len(pat) - 1) = pat

\* s.indexOf(pat), 1-based; 0 when pat does not occur
IndexOf(s, pat) ==
    LET hits == {i \in 1..(Len(s) + 1) : OccursAt(s, pat, i)}
    IN IF hits = {} THEN 0 ELSE CHOOSE i \in hits : \A j \in hits : i <= j

\* s.includes(pat)
Includes(s, pat) == IndexOf(s, pat) # 0

\* GetSubstitution of String.prototype.replace: in a replacement STRING,
\* "$$" stands for "$", "$&" for the matched text; a "$" before anything
\* else is literal.  (The alphabet has no "'" and no single back-tick, so
\* the patterns "$'" and "$`" cannot be written.)
RECURSIVE GetSubstitution(_, _)
GetSubstitution(repl, matched) ==
    IF repl = <<>> THEN <<>>
    ELSE IF Head(repl) = "$" /\ Len(repl) >= 2 /\ repl[2] = "$"
         THEN <<"$">> \o GetSubstitution(SubSeq(repl, 3, Len(repl)), matched)
    ELSE IF Head(repl) = "$" /\ Len(repl) >= 2 /\ repl[2] = "&"
         THEN matched \o GetSubstitution(SubSeq(repl, 3, Len(repl)), matched)
    ELSE <<Head(repl)>> \o GetSubstitution(Tail(repl), matched)

\* s.replace(pat, repl) with a STRING pattern: the first occurrence only,
\* the replacement string expanded by GetSubstitution.
ReplaceString(s, pat, repl) ==
    LET i == IndexOf(s, pat)
    IN IF i = 0 THEN s
       ELSE SubSeq(s, 1, i - 1) \o GetSubstitution(repl, pat)
            \o SubSeq(s, i + Len(pat), Len(s))

----------------------------------------------------------------------------
(* The compose fenced block: /^```ya?ml\s+title=(docker-)?compose\.ya?ml   *)
(* \r?\n([\s\S]*?)\n```/m                                                  *)

\* The text after the opening fence that the regular expression accepts:
\* ya?ml, white space, title=, optional docker-, compose.ya?ml.  No i flag.
ComposeHeaders ==
    { "yaml title=compose.yaml", "yaml title=docker-compose.yaml",
      "yaml title=compose.yml",  "yaml title=docker-compose.yml",
      "yml title=compose.yaml",  "yml title=docker-compose.yaml",
      "yml title=compose.yml",   "yml title=docker-compose.yml" }

NormalHeader == "yaml title=compose.yaml"

\* ^ with the m flag: the start of the input or just after a line terminator
AtLineStart(s, i) == i = 1 \/ (i > 1 /\ s[i - 1] \in {NL, CR})

\* Index of the "\n" that ends the header line of a block opening at i,
\* 0 when no block header is at i.
HeaderEnd(s, i) ==
    IF /\ i + 2 <= Len(s)
       /\ AtLineStart(s, i)
       /\ s[i] = FENCE
       /\ s[i + 1] \in ComposeHeaders
    THEN IF s[i + 2] = NL THEN i + 2
         ELSE IF s[i + 2] = CR /\ i + 3 <= Len(s) /\ s[i + 3] = NL THEN i + 3
         ELSE 0
    ELSE 0

\* Index of the closing fence of the block opening at i (lazy body: the
\* first "\n```" after the header line), 0 when there is no match at i.
BlockEnd(s, i) ==
    LET h == HeaderEnd(s, i)
        ends == IF h = 0 THEN {}
                ELSE {k \in (h + 1)..(Len(s) - 1) : s[k] = NL /\ s[k + 1] = FENCE}
    IN IF ends = {} THEN 0
       ELSE (CHOOSE k \in ends : \A j \in ends : k <= j) + 1

\* Start of the leftmost match at or after index from, 0 when none
NextBlock(s, from) ==
    LET starts == {i \in from..Len(s) : BlockEnd(s, i) # 0}
    IN IF starts = {} THEN 0
       ELSE CHOOSE i \in starts : \A j \in starts : i <= j

\* content.match(yamlCodeBlockRegex) is not null
HasComposeBlock(s) == NextBlock(s, 1) # 0

\* `\`\`\`yaml title=compose.yaml\n${newContent.trim()}\n\`\`\``
NewCodeBlock(newContent) ==
    <<FENCE, NormalHeader, NL>> \o Trim(newContent) \o <<NL, FENCE>>

\* an update that replaces every match of the regular expression
RECURSIVE UpdatedEveryBlockFrom(_, _, _)
UpdatedEveryBlockFrom(content, from, newContent) ==
    LET i == NextBlock(content, from)
    IN IF i = 0 THEN SubSeq(content, from, Len(content))
       ELSE SubSeq(content, from, i - 1) \o NewCodeBlock(newContent)
            \o UpdatedEveryBlockFrom(content, BlockEnd(content, i) + 1, newContent)
UpdatedEveryBlock(content, newContent) == UpdatedEveryBlockFrom(content, 1, newContent)

\* updateYamlCodeBlock's new text: match[0] is taken from the first match of
\* the regular expression, then content.replace(match[0], newCodeBlock)
\* replaces the first occurrence of that STRING.
UpdatedContent(content, newContent) ==
    LET i == NextBlock(content, 1)
        oldCodeBlock == SubSeq(content, i, BlockEnd(content, i))
    IN ReplaceString(content, oldCodeBlock, NewCodeBlock(newContent))

----------------------------------------------------------------------------
(* The remote repository and GithubService                                 *)

SLASH == "/"
COMPOSE == "compose.yaml"

\* bounds of the model
MaxFiles == 2
MaxNotes == 2

\* File contents a repository may hold (res.text() of a compose file).
Contents ==
    { <<>>, <<"x">>, <<SP, "y", NL>>, <<"$", "$">>, <<"x", NL, FENCE>> }

\* The repository files the model draws from, in the order the contents API
\* lists them.  Directories are the proper prefixes of the files present.
RemoteUniverse ==
    << <<"A", SLASH, COMPOSE>>,
       <<"B", SLASH, COMPOSE>>,
       <<"a", SLASH, COMPOSE>>,
       <<"a", SLASH, "readme">>,
       <<"a", SLASH, "a", SLASH, COMPOSE>>,
       <<"a", SLASH, "docker", "-", COMPOSE>>,
       <<COMPOSE>> >>

RemotePaths == {RemoteUniverse[i] : i \in 1..Len(RemoteUniverse)}

Rank(path) == CHOOSE i \in 1..Len(RemoteUniverse) : RemoteUniverse[i] = path

\* index of the last "/" of a path, 0 when it has none
LastSlash(path) ==
    LET at == {i \in 1..Len(path) : path[i] = SLASH}
    IN IF at = {} THEN 0 ELSE CHOOSE i \in at : \A j \in at : j <= i

\* the directory of a path and its base name (item.name)
DirOf(path) == SubSeq(path, 1, LastSlash(path) - 1)
BaseName(path) == SubSeq(path, LastSlash(path) + 1, Len(path))

\* the directories of a repository holding the files fs (the root is <<>>)
RemoteDirs(fs) ==
    {<<>>} \cup {d \in UNION {{SubSeq(f, 1, i - 1) : i \in 1..Len(f)} : f \in fs} :
                    d # <<>> /\ \E f \in fs : StartsWith(f, d \o <<SLASH>>)}

\* the sub-directories listed in directory d (items of type "dir")
SubDirs(fs, d) == {e \in RemoteDirs(fs) : e # <<>> /\ DirOf(e) = d}

\* item.type === "file" && item.name.includes("compose.yaml")
IsComposeFile(path) == Includes(BaseName(path), <<COMPOSE>>)

\* files.push(item.path) for the matching files listed in directory d
ListedFiles(fs, d) == {f \in fs : DirOf(f) = d /\ IsComposeFile(f)}

\* a set of paths as a sequence in listing order
RECURSIVE InOrder(_)
InOrder(ps) ==
    IF ps = {} THEN <<>>
    ELSE LET first == CHOOSE p \in ps : \A q \in ps : Rank(p) <= Rank(q)
         IN <<first>> \o InOrder(ps \ {first})

\* the sub-directories of d in listing order: a directory is listed where
\* its first file would be
DirRank(fs, e) ==
    LET under == {Rank(f) : f \in {g \in fs : StartsWith(g, e \o <<SLASH>>)}}
    IN CHOOSE r \in under : \A q \in under : r <= q

RECURSIVE DirsInOrder(_, _)
DirsInOrder(fs, ds) ==
    IF ds = {} THEN <<>>
    ELSE LET first == CHOOSE e \in ds : \A q \in ds : DirRank(fs, e) <= DirRank(fs, q)
         IN <<first>> \o DirsInOrder(fs, ds \ {first})

\* fetchComposeYamlFiles(path) when every listing succeeds: the matching
\* files of the directory, then those of each sub-directory in turn.
RECURSIVE FetchComposeYamlFiles(_, _)
RECURSIVE ConcatSubFiles(_, _)
FetchComposeYamlFiles(fs, d) ==
    InOrder(ListedFiles(fs, d)) \o ConcatSubFiles(fs, DirsInOrder(fs, SubDirs(fs, d)))
ConcatSubFiles(fs, ds) ==
    IF ds = <<>> THEN <<>>
    ELSE FetchComposeYamlFiles(fs, Head(ds)) \o ConcatSubFiles(fs, Tail(ds))

\* path.replace("/compose.yaml", "").split("/").pop() || "__unknown__"
StackNameOf(path) ==
    LET stripped == ReplaceString(path, <<SLASH, COMPOSE>>, <<>>)
        last == BaseName(stripped)
    IN IF last = <<>> THEN <<"__unknown__">> ELSE last

----------------------------------------------------------------------------
(* Template rendering and file names (ObsidianService)                     *)

STACKCONTENT == "{{stackContent}}"
STACKNAME == "{{stackName}}"
ABOUT == "{{about}}"
DATE == "{{date}}"
DATEYEAR == "{{date:YYYY}}"

Placeholder == <<"Write description here">>

\* moment().format(...) at the time of the call: "YYYY/MM/DD" and "YYYY"
NowDefault == <<"2026", SLASH, "11", SLASH, "04">>
NowYear == <<"2026">>

\* s.replace(/tok/g, repl) for a one-token pattern and a replacement STRING
RECURSIVE ReplaceAllString(_, _, _)
ReplaceAllString(s, tok, repl) ==
    IF s = <<>> THEN <<>>
    ELSE IF Head(s) = tok
         THEN GetSubstitution(repl, <<tok>>) \o ReplaceAllString(Tail(s), tok, repl)
    ELSE <<Head(s)>> \o ReplaceAllString(Tail(s), tok, repl)

\* s.replace(/tok/g, () => text): the text is inserted as it is
RECURSIVE ReplaceAllLiteral(_, _, _)
ReplaceAllLiteral(s, tok, text) ==
    IF s = <<>> THEN <<>>
    ELSE IF Head(s) = tok THEN text \o ReplaceAllLiteral(Tail(s), tok, text)
    ELSE <<Head(s)>> \o ReplaceAllLiteral(Tail(s), tok, text)

\* processDateVariables: {{date:<format>}} through a replacer function,
\* then {{date}} by now.format("YYYY/MM/DD") as a replacement string
ProcessDateVariables(template) ==
    ReplaceAllString(ReplaceAllLiteral(template, DATEYEAR, NowYear), DATE, NowDefault)

\* processYamlCodeBlocks: the regular expression with the g flag and a
\* replacer function: every match, left to right, becomes the new block
RECURSIVE ProcessYamlCodeBlocksFrom(_, _, _)
ProcessYamlCodeBlocksFrom(template, from, stackContent) ==
    LET i == NextBlock(template, from)
    IN IF i = 0 THEN SubSeq(template, from, Len(template))
       ELSE SubSeq(template, from, i - 1) \o NewCodeBlock(stackContent)
            \o ProcessYamlCodeBlocksFrom(template, BlockEnd(template, i) + 1, stackContent)

\* a pass that replaces the first match only
ProcessFirstYamlCodeBlock(template, stackContent) ==
    LET i == NextBlock(template, 1)
    IN IF i = 0 THEN template
       ELSE SubSeq(template, 1, i - 1) \o NewCodeBlock(stackContent)
            \o SubSeq(template, BlockEnd(template, i) + 1, Len(template))

ProcessYamlCodeBlocks(template, stackContent) ==
    ProcessYamlCodeBlocksFrom(template, 1, stackContent)

\* processTemplate up to the description: lines 278-289
RenderContent(template, stack) ==
    IF Includes(template, <<STACKCONTENT>>)
    THEN ReplaceAllString(template, STACKCONTENT, stack.content)
    ELSE ProcessYamlCodeBlocks(template, stack.content)

\* processTemplate from the description on: lines 296-301
RenderRest(processedTemplate, stack, description) ==
    ReplaceAllString(
        ReplaceAllString(ProcessDateVariables(processedTemplate), STACKNAME, stack.name),
        ABOUT, description)

\* word.charAt(0).toUpperCase() + word.slice(1).toLowerCase(), by token
ToLower(t) ==
    CASE t = "A" -> "a" [] t = "B" -> "b" [] t = "Docker" -> "docker"
      [] t = "Compose.yaml" -> "compose.yaml" [] OTHER -> t

UpperFirst(t) ==
    CASE ToLower(t) = "a" -> "A" [] ToLower(t) = "b" -> "B"
      [] ToLower(t) = "docker" -> "Docker"
      [] ToLower(t) = "compose.yaml" -> "Compose.yaml"
      [] ToLower(t) = "x" -> "X" [] ToLower(t) = "y" -> "Y"
      [] OTHER -> ToLower(t)

\* a capitalization that keeps the rest of the word as it is
CapitalizeFirstOnly(word) ==
    [i \in 1..Len(word) |-> IF i = 1 THEN UpperFirst(word[i]) ELSE word[i]]

CapitalizeWord(word) ==
    [i \in 1..Len(word) |-> IF i = 1 THEN UpperFirst(word[i]) ELSE ToLower(word[i])]

\* [-_\s]
IsNameSeparator(t) == t \in {"-", "_"} \/ IsSpace(t)

RECURSIVE TrimSeparators(_)
TrimSeparators(s) ==
    IF s # <<>> /\ IsNameSeparator(Head(s)) THEN TrimSeparators(Tail(s)) ELSE s

\* stackName.split(/[-_\s]+/): the words between the runs of separators
\* (an empty word before a leading run and after a trailing one)
RECURSIVE SplitName(_, _)
SplitName(s, word) ==
    IF s = <<>> THEN <<word>>
    ELSE IF IsNameSeparator(Head(s))
         THEN <<word>> \o SplitName(TrimSeparators(s), <<>>)
    ELSE SplitName(Tail(s), Append(word, Head(s)))

RECURSIVE JoinWords(_)
JoinWords(words) ==
    IF Len(words) = 1 THEN CapitalizeWord(words[1])
    ELSE CapitalizeWord(words[1]) \o <<SP>> \o JoinWords(Tail(words))

CapitalizeStackName(stackName) == JoinWords(SplitName(stackName, <<>>))

\* generateFileName(stackName)
GenerateFileName(stackName, fileNamePrefix, fileNameSuffix) ==
    LET processedPrefix == IF fileNamePrefix # <<>>
                           THEN ProcessDateVariables(fileNamePrefix) ELSE <<>>
        processedSuffix == IF fileNameSuffix # <<>>
                           THEN ProcessDateVariables(fileNameSuffix) ELSE <<>>
    IN processedPrefix \o CapitalizeStackName(stackName) \o processedSuffix \o <<".md">>

\* folderPath ? `${folderPath}/${fileName}` : fileName
NotePath(folderPath, fileName) ==
    IF folderPath # <<>> THEN folderPath \o <<SLASH>> \o fileName ELSE fileName

----------------------------------------------------------------------------
(* State                                                                   *)

VARIABLES
    settings,      \* plugin.settings
    remote,        \* the repository: file path -> content
    req,           \* the HTTP requests issued so far: request -> status
    vault,         \* the vault: path -> file
    vault0,        \* the vault when the command was triggered
    cmd,           \* the command that was triggered: "sync" or "create"
    pc,            \* where the command is
    notices,       \* the Notice texts shown, oldest first
    stacks,        \* what fetchAllComposeStackFiles resolved with
    task,          \* the per-note tasks of the running fan-out
    updatedCount,  \* <<n>> once checkNotesForMatchingStacks has returned n
    writes,        \* every completed vault write: <<op, path>>
    existingStackNames,  \* the Set findMissingStacks fills
    missingStacks, \* <<list>> once findMissingStacks has returned list
    modal,         \* the StackSelectionModal
    cr,            \* the running createNotesFromTemplate call
    createRet,     \* <<n>> once createNotesFromTemplate has returned n
    pendingFm,     \* processFrontMatter calls of setFrontmatterProperty in flight
    skipped,       \* indices of the selected stacks skipped as already existing
    aiCalls,       \* number of requests sent to the generation API
    aiLog,         \* what each generateStackDescription/Tags call returned
    call           \* a text function applied on its own: arguments and results

envVars == <<settings, remote, vault0, cmd, call>>
cmdVars == <<pc, notices, stacks, task, updatedCount, vault, writes>>
createVars == <<existingStackNames, missingStacks, modal, cr, createRet,
                pendingFm, skipped, aiCalls, aiLog>>

vars == <<settings, remote, req, vault, vault0, cmd, pc, notices, stacks,
          task, updatedCount, writes, existingStackNames, missingStacks,
          modal, cr, createRet, pendingFm, skipped, aiCalls, aiLog, call>>

MD == ".md"

\* frontmatter keys of the model
StackNameKey == "stackName"
TagsKey == "tags"

\* frontmatter?.[key] is truthy (a missing key and "" are both falsy)
HasKey(fm, key) == key \in DOMAIN fm /\ fm[key] # <<>>

\* How fileManager.processFrontMatter behaves on a file: "ok" (it calls the
\* callback with the parsed frontmatter), "throws" (it throws before
\* returning), "rejects" (it returns a promise that rejects, as for
\* frontmatter that is not valid YAML: the callback is never called).
FmHosts == {"ok", "throws", "rejects"}

File(text, fm, host) == [kind |-> "file", text |-> text, fm |-> fm, fmHost |-> host]
Folder == [kind |-> "folder", text |-> <<>>, fm |-> <<>>, fmHost |-> "ok"]

\* getAbstractFileByPath(path) instanceof TFile
IsFile(v, path) == path \in DOMAIN v /\ v[path].kind = "file"

\* vault.getMarkdownFiles(), optionally filtered by the folder setting
GetMarkdownFiles ==
    LET folderPath == Trim(settings.folderPath)
        allFiles == {p \in DOMAIN vault : IsFile(vault, p) /\ p[Len(p)] = MD}
    IN IF folderPath = <<>> THEN allFiles
       ELSE {p \in allFiles : StartsWith(p, folderPath)}

\* getFrontmatter(filePath), up to the point where it waits for the host:
\*   "never"    the executor returned without resolving or rejecting
\*   "rejected" processFrontMatter threw: reject(error)
\*   "pending"  processFrontMatter was called and returned
GetFrontmatter(path) ==
    IF ~IsFile(vault, path) THEN "never"
    ELSE IF vault[path].fmHost = "throws" THEN "rejected"
    ELSE "pending"

\* new Map(stacks.map((stack) => [stack.name, stack.content])).get(name):
\* a later entry of the same name replaces an earlier one.  <<c>> when
\* found, <<>> when not.
\* a map in which the first entry of a key is the one kept
StackMapGetFirst(stks, name) ==
    LET at == {i \in 1..Len(stks) : stks[i].name = name}
    IN IF at = {} THEN <<>>
       ELSE <<stks[CHOOSE i \in at : \A j \in at : i <= j].content>>

StackMapGet(stks, name) ==
    LET at == {i \in 1..Len(stks) : stks[i].name = name}
    IN IF at = {} THEN <<>>
       ELSE <<stks[CHOOSE i \in at : \A j \in at : j <= i].content>>

----------------------------------------------------------------------------
(* ObsidianService.checkNotesForMatchingStacks and updateYamlCodeBlock     *)

\* a task has returned true or false, or its catch block has ("error")
Settled(t) == \A p \in DOMAIN t : t[p].pc \in {"true", "false", "error"}

Pending(what) == [pc |-> what, newContent |-> <<>>, buf |-> <<>>]
Done(success) == Pending(IF success THEN "true" ELSE "false")
Caught == Pending("error")

\* a count of every task that returned, whatever it returned
CountSettled(t) == Cardinality({p \in DOMAIN t : t[p].pc \in {"true", "false"}})

\* results.filter((success) => success).length
CountTrue(t) == Cardinality({p \in DOMAIN t : t[p].pc = "true"})

\* The task of one note, from its start to its first wait: getFrontmatter
\* is called; a rejection is caught and the task returns false.
StartTask(path) ==
    CASE GetFrontmatter(path) = "rejected" -> Caught
      [] GetFrontmatter(path) = "pending"  -> Pending("fm")
      [] OTHER                             -> Pending("never")

\* Lines 37-47 of the task: the content to write, <<c>>, or <<>> when the
\* task returns false (no key, no such stack, or a falsy content).
MatchingContent(fm, stks) ==
    LET propertyName == settings.frontmatterProperty
    IN IF ~HasKey(fm, propertyName) THEN <<>>
       ELSE LET stackContent == StackMapGet(stks, fm[propertyName])
            IN IF stackContent = <<>> \/ stackContent[1] = <<>> THEN <<>>
               ELSE stackContent

\* const results = await Promise.all(updatePromises) and what the command
\* does with the count, once every task of t has settled.
SyncJoin(t, shown) ==
    IF Settled(t)
    THEN /\ updatedCount' = <<CountTrue(t)>>
         /\ notices' = Append(shown,
                IF CountTrue(t) > 0 THEN <<"Successfully updated", CountTrue(t)>>
                ELSE <<"No matching notes found to update.", 0>>)
         /\ pc' = "done"
    ELSE /\ updatedCount' = updatedCount
         /\ notices' = shown
         /\ pc' = "sync"

\* checkNotesForMatchingStacks(stacks) up to its await: one task per note
CheckNotesForMatchingStacks(stks) ==
    LET t == [p \in GetMarkdownFiles |-> StartTask(p)]
    IN /\ task' = t
       /\ SyncJoin(t, Append(notices, <<"Found Docker stacks.", Len(stks)>>))
       /\ UNCHANGED <<vault, writes>>

\* processFrontMatter calls the callback of getFrontmatter: the task of note
\* p goes on to vault.read, or returns false.
SyncFrontmatter(p) ==
    /\ pc = "sync"
    /\ p \in DOMAIN task
    /\ task[p].pc = "fm"
    /\ vault[p].fmHost = "ok"
    /\ LET c == MatchingContent(vault[p].fm, stacks)
           t == [task EXCEPT ![p] =
                    IF c = <<>> THEN Done(FALSE)
                    ELSE [pc |-> "read", newContent |-> c[1], buf |-> <<>>]]
       IN task' = t /\ SyncJoin(t, notices)
    /\ UNCHANGED <<envVars, req, vault, stacks, writes, createVars>>

\* vault.read(file) answers in updateYamlCodeBlock: no block, return false;
\* else vault.modify is called with the updated content.  A failed read
\* throws and the task's catch returns false.
SyncRead(p) ==
    /\ pc = "sync"
    /\ p \in DOMAIN task
    /\ task[p].pc = "read"
    /\ \E ok \in BOOLEAN :
         LET content == vault[p].text
             t == [task EXCEPT ![p] =
                     IF ~ok THEN Caught
                     ELSE IF HasComposeBlock(content)
                     THEN [pc |-> "modify", newContent |-> task[p].newContent,
                           buf |-> UpdatedContent(content, task[p].newContent)]
                     ELSE Done(FALSE)]
         IN task' = t /\ SyncJoin(t, notices)
    /\ UNCHANGED <<envVars, req, vault, stacks, writes, createVars>>

\* vault.modify(file, updatedContent) answers: return true; a failed modify
\* throws and the task's catch returns false.
SyncModify(p) ==
    /\ pc = "sync"
    /\ p \in DOMAIN task
    /\ task[p].pc = "modify"
    /\ \E ok \in BOOLEAN :
         LET t == [task EXCEPT ![p] = IF ok THEN Done(TRUE) ELSE Caught]
         IN /\ task' = t
            /\ SyncJoin(t, notices)
            /\ vault' = IF ok THEN [vault EXCEPT ![p].text = task[p].buf] ELSE vault
            /\ writes' = IF ok THEN writes \cup {<<"modify", p>>} ELSE writes
    /\ UNCHANGED <<envVars, req, stacks, createVars>>

----------------------------------------------------------------------------
(* AIService                                                               *)

\* const apiKey = settings.openaiApiKey?.trim(); if (!apiKey) ...
HasApiKey == Trim(settings.openaiApiKey) # <<>>

\* what the generation API may answer: a text or an object, or a failure
\* (network error, malformed response, schema validation failure)
DescribeResponses ==
    { [ok |-> TRUE, text |-> <<SP, "d", "$", "$">>], [ok |-> FALSE, text |-> <<>>] }
TagsResponses ==
    { [ok |-> TRUE, tags |-> <<"t">>], [ok |-> FALSE, tags |-> <<>>] }

\* generateStackDescription without a key: the placeholder, no request
DescriptionWithoutKey == [raised |-> FALSE, value |-> Placeholder]

\* generateStackDescription without its catch block
DescriptionUncaught(resp) ==
    IF resp.ok THEN [raised |-> FALSE, value |-> Trim(resp.text)]
    ELSE [raised |-> TRUE, value |-> <<>>]

\* generateStackDescription once generateText has answered: text.trim(),
\* or the placeholder from the catch block
DescriptionOf(resp) ==
    IF resp.ok THEN [raised |-> FALSE, value |-> Trim(resp.text)]
    ELSE [raised |-> FALSE, value |-> Placeholder]

\* generateStackTags without a key: no tags, no request
TagsWithoutKey == [raised |-> FALSE, value |-> <<>>]

\* generateStackTags once generateObject has answered: object.tags, or []
\* from the catch block
TagsOf(resp) ==
    IF resp.ok THEN [raised |-> FALSE, value |-> resp.tags]
    ELSE [raised |-> FALSE, value |-> <<>>]

LogEntry(fn, i, network, failed, r) ==
    [fn |-> fn, idx |-> i, network |-> network, failed |-> failed,
     raised |-> r.raised, value |-> r.value]

----------------------------------------------------------------------------
(* ObsidianService.createNotesFromTemplate                                 *)

IdleCr ==
    [cpc |-> "idle", sel |-> <<>>, idx |-> 0, count |-> 0,
     templateContent |-> <<>>, templateFm |-> <<>>, templateHasTags |-> FALSE,
     processed |-> <<>>, noteContent |-> <<>>, filePath |-> <<>>]

\* the destination of the note of a stack
DestinationPath(stack) ==
    NotePath(Trim(settings.folderPath),
             GenerateFileName(stack.name, settings.fileNamePrefix, settings.fileNameSuffix))

\* The for loop from stack i on, with createdCount = count and the vault v,
\* run up to its next wait (the generation API or vault.create) or to the
\* return.  Gives the call's new state, the AI calls answered on the way
\* and the stacks skipped on the way.
RECURSIVE CreateLoop(_, _, _, _)
RECURSIVE AfterDescription(_, _, _, _, _, _)
CreateLoop(i, count, c, v) ==
    IF i > Len(c.sel)
    THEN [cr |-> [c EXCEPT !.cpc = "returned", !.idx = i, !.count = count],
          log |-> {}, skipped |-> {}]
    ELSE LET processed == RenderContent(c.templateContent, c.sel[i])
             wantsAbout == Includes(processed, <<ABOUT>>) /\ settings.useAI
         IN IF wantsAbout /\ HasApiKey
            THEN [cr |-> [c EXCEPT !.cpc = "describe", !.idx = i, !.count = count,
                                   !.processed = processed],
                  log |-> {}, skipped |-> {}]
            ELSE IF wantsAbout
            THEN LET r == AfterDescription(i, count, c, v, processed,
                                           DescriptionWithoutKey.value)
                 IN [r EXCEPT !.log = @ \cup
                        {LogEntry("describe", i, FALSE, FALSE, DescriptionWithoutKey)}]
            ELSE AfterDescription(i, count, c, v, processed, Placeholder)
\* a loop that counts the stack it skips
AfterDescriptionCounting(i, count, c, v, processed, description) ==
    LET noteContent == RenderRest(processed, c.sel[i], description)
        filePath == DestinationPath(c.sel[i])
    IN IF filePath \in DOMAIN v
       THEN LET r == CreateLoop(i + 1, count + 1, c, v)
            IN [r EXCEPT !.skipped = @ \cup {i}]
       ELSE [cr |-> [c EXCEPT !.cpc = "create", !.idx = i, !.count = count,
                              !.processed = processed,
                              !.noteContent = noteContent, !.filePath = filePath],
             log |-> {}, skipped |-> {}]
AfterDescription(i, count, c, v, processed, description) ==
    LET noteContent == RenderRest(processed, c.sel[i], description)
        filePath == DestinationPath(c.sel[i])
    IN IF filePath \in DOMAIN v
       THEN LET r == CreateLoop(i + 1, count, c, v)
            IN [r EXCEPT !.skipped = @ \cup {i}]
       ELSE [cr |-> [c EXCEPT !.cpc = "create", !.idx = i, !.count = count,
                              !.processed = processed,
                              !.noteContent = noteContent, !.filePath = filePath],
             log |-> {}, skipped |-> {}]

\* The state after a step of the loop, r, and what the onSubmit callback of
\* the command does once createNotesFromTemplate has returned.
CreateStep(r, log, calls) ==
    /\ cr' = r.cr
    /\ aiLog' = aiLog \cup log \cup r.log
    /\ skipped' = skipped \cup r.skipped
    /\ aiCalls' = calls + (IF r.cr.cpc = "describe" THEN 1 ELSE 0)
    /\ IF r.cr.cpc = "returned"
       THEN /\ createRet' = <<r.cr.count>>
            /\ notices' = Append(notices,
                  IF r.cr.count > 0 THEN <<"Successfully created", r.cr.count>>
                  ELSE <<"Failed to create notes. Check console for errors.", 0>>)
            /\ pc' = "done"
       ELSE /\ createRet' = createRet
            /\ notices' = notices
            /\ pc' = "creating"

\* createNotesFromTemplate rejects: the catch block of the onSubmit callback
CreateThrew ==
    /\ cr' = [cr EXCEPT !.cpc = "threw"]
    /\ notices' = Append(notices,
          <<"Failed to create Docker notes. Check console for details.", 0>>)
    /\ pc' = "done"
    /\ UNCHANGED <<createRet, aiLog, skipped, aiCalls, pendingFm, vault, writes>>

\* whether the template path names a file: lines 181-193
TemplatePath == Trim(settings.templateFilePath)
TemplateConfigured == TemplatePath # <<>>
\* a check that takes any path for a file
TemplateAssumedFound == TRUE
TemplateFound == IsFile(vault, TemplatePath)

\* createNotesFromTemplate(selected) up to its first wait
CreateNotesFromTemplate(selected) ==
    IF ~TemplateConfigured \/ ~TemplateFound
    THEN /\ createRet' = <<0>>
         /\ notices' = Append(notices,
               <<"Failed to create notes. Check console for errors.", 0>>)
         /\ pc' = "done"
         /\ cr' = [IdleCr EXCEPT !.cpc = "returned", !.sel = selected]
    ELSE /\ cr' = [IdleCr EXCEPT !.cpc = "readTemplate", !.sel = selected]
         /\ pc' = "creating"
         /\ UNCHANGED <<createRet, notices>>

\* vault.read(templateFile) answers; getFrontmatter(templateFile.path) is
\* called.  A failed read (as of what is no file), or a rejected
\* getFrontmatter, is not caught.
TemplateRead ==
    /\ pc = "creating"
    /\ cr.cpc = "readTemplate"
    /\ \E ok \in BOOLEAN :
         IF ~ok \/ ~IsFile(vault, TemplatePath)
               \/ GetFrontmatter(TemplatePath) = "rejected"
         THEN CreateThrew
         ELSE /\ cr' = [cr EXCEPT
                    !.cpc = IF GetFrontmatter(TemplatePath) = "pending"
                            THEN "templateFm" ELSE "never",
                    !.templateContent = vault[TemplatePath].text,
                    !.templateFm = vault[TemplatePath].fm]
              /\ UNCHANGED <<createRet, notices, pc, aiLog, skipped, aiCalls,
                             pendingFm, vault, writes>>
    /\ UNCHANGED <<envVars, req, stacks, task, updatedCount,
                   existingStackNames, missingStacks, modal>>

\* processFrontMatter calls the callback of getFrontmatter(templateFile.path):
\* templateHasTags is set and the loop starts.
TemplateFrontmatter ==
    /\ pc = "creating"
    /\ cr.cpc = "templateFm"
    /\ vault[TemplatePath].fmHost = "ok"
    /\ CreateStep(CreateLoop(1, 0,
            [cr EXCEPT !.templateHasTags = TagsKey \in DOMAIN vault[TemplatePath].fm],
            vault), {}, aiCalls)
    /\ UNCHANGED <<envVars, req, stacks, task, updatedCount, vault, writes,
                   existingStackNames, missingStacks, modal, pendingFm>>

\* generateText answers (or fails) for the stack being rendered
DescribeResponse ==
    /\ pc = "creating"
    /\ cr.cpc = "describe"
    /\ \E resp \in DescribeResponses :
         LET r == DescriptionOf(resp)
             entry == LogEntry("describe", cr.idx, TRUE, ~resp.ok, r)
         IN IF r.raised
            THEN CreateStep(CreateLoop(cr.idx + 1, cr.count, cr, vault), {entry}, aiCalls)
            ELSE CreateStep(AfterDescription(cr.idx, cr.count, cr, vault,
                                             cr.processed, r.value), {entry}, aiCalls)
    /\ UNCHANGED <<envVars, req, stacks, task, updatedCount, vault, writes,
                   existingStackNames, missingStacks, modal, pendingFm>>

\* setFrontmatterProperty(file, key, value): processFrontMatter is called
\* and not awaited; resolve() follows at once.  FALSE when it threw.
SetFrontmatterAccepted(v, path) == v[path].fmHost # "throws"

FmOp(path, key, value) == [path |-> path, key |-> key, value |-> value]

\* vault.create(filePath, noteContent) answers.  On success the designated
\* key is set, the tags are asked for when the template has a tags key and
\* AI is enabled, and the stack is counted.  Whatever throws is caught by
\* the loop, which goes on with the next stack.
CreateResponse ==
    /\ pc = "creating"
    /\ cr.cpc = "create"
    /\ \E ok \in BOOLEAN, host \in FmHosts :
         LET path == cr.filePath
             stack == cr.sel[cr.idx]
             v1 == [p \in DOMAIN vault \cup {path} |->
                      IF p = path THEN File(cr.noteContent, cr.templateFm, host)
                      ELSE vault[p]]
             nameOp == FmOp(path, settings.frontmatterProperty, stack.name)
         IN IF ~ok \/ path \in DOMAIN vault
            THEN /\ CreateStep(CreateLoop(cr.idx + 1, cr.count, cr, vault), {}, aiCalls)
                 /\ UNCHANGED <<vault, writes, pendingFm>>
            ELSE /\ vault' = v1
                 /\ writes' = writes \cup {<<"create", path>>}
                 /\ IF ~SetFrontmatterAccepted(v1, path)
                    THEN /\ CreateStep(CreateLoop(cr.idx + 1, cr.count, cr, v1), {}, aiCalls)
                         /\ pendingFm' = pendingFm
                    ELSE IF cr.templateHasTags /\ settings.useAI /\ HasApiKey
                    THEN /\ CreateStep([cr |-> [cr EXCEPT !.cpc = "tags"],
                                        log |-> {}, skipped |-> {}], {}, aiCalls + 1)
                         /\ pendingFm' = pendingFm \cup {nameOp}
                    ELSE IF cr.templateHasTags /\ settings.useAI
                    THEN /\ CreateStep(CreateLoop(cr.idx + 1, cr.count + 1, cr, v1),
                              {LogEntry("tags", cr.idx, FALSE, FALSE, TagsWithoutKey)},
                              aiCalls)
                         /\ pendingFm' = pendingFm \cup
                              {nameOp, FmOp(path, TagsKey, TagsWithoutKey.value)}
                    ELSE /\ CreateStep(CreateLoop(cr.idx + 1, cr.count + 1, cr, v1),
                                       {}, aiCalls)
                         /\ pendingFm' = pendingFm \cup {nameOp}
    /\ UNCHANGED <<envVars, req, stacks, task, updatedCount,
                   existingStackNames, missingStacks, modal>>

\* generateObject answers (or fails) for the note just created
TagsResponse ==
    /\ pc = "creating"
    /\ cr.cpc = "tags"
    /\ \E resp \in TagsResponses :
         LET r == TagsOf(resp)
             entry == LogEntry("tags", cr.idx, TRUE, ~resp.ok, r)
         IN IF r.raised
            THEN /\ CreateStep(CreateLoop(cr.idx + 1, cr.count, cr, vault), {entry}, aiCalls)
                 /\ pendingFm' = pendingFm
            ELSE /\ CreateStep(CreateLoop(cr.idx + 1, cr.count + 1, cr, vault),
                               {entry}, aiCalls)
                 /\ pendingFm' = pendingFm \cup {FmOp(cr.filePath, TagsKey, r.value)}
    /\ UNCHANGED <<envVars, req, stacks, task, updatedCount, vault, writes,
                   existingStackNames, missingStacks, modal>>

\* A processFrontMatter call of setFrontmatterProperty completes: the
\* callback sets the key and the file is saved; or the promise rejects and
\* nobody is told.
FrontMatterWritten(op) ==
    /\ op \in pendingFm
    /\ pendingFm' = pendingFm \ {op}
    /\ IF vault[op.path].fmHost = "ok"
       THEN /\ vault' = [vault EXCEPT ![op.path].fm =
                  [k \in DOMAIN @ \cup {op.key} |-> IF k = op.key THEN op.value ELSE @[k]]]
            /\ writes' = writes \cup {<<"frontmatter", op.path>>}
       ELSE UNCHANGED <<vault, writes>>
    /\ UNCHANGED <<envVars, req, pc, notices, stacks, task, updatedCount,
                   existingStackNames, missingStacks, modal, cr, createRet,
                   skipped, aiCalls, aiLog>>

----------------------------------------------------------------------------
(* StackSelectionModal                                                     *)

\* a.name.localeCompare(b.name): letters compare without case first, white
\* space and punctuation sort before letters; between names that differ in
\* case only, the lower-case letter comes first.
PrimaryWeight(t) ==
    CASE t = SP -> 1 [] t = "_" -> 2 [] t = "__unknown__" -> 3 [] t = "-" -> 4
      [] ToLower(t) = "a" -> 10 [] ToLower(t) = "b" -> 11
      [] ToLower(t) = "compose.yaml" -> 12 [] ToLower(t) = "docker" -> 13
      [] ToLower(t) = "x" -> 14 [] ToLower(t) = "y" -> 15
      [] OTHER -> 20

RECURSIVE PrimaryCompare(_, _)
PrimaryCompare(a, b) ==
    IF a = <<>> /\ b = <<>> THEN 0
    ELSE IF a = <<>> THEN -1
    ELSE IF b = <<>> THEN 1
    ELSE IF PrimaryWeight(Head(a)) < PrimaryWeight(Head(b)) THEN -1
    ELSE IF PrimaryWeight(Head(a)) > PrimaryWeight(Head(b)) THEN 1
    ELSE PrimaryCompare(Tail(a), Tail(b))

RECURSIVE CaseCompare(_, _)
CaseCompare(a, b) ==
    IF a = <<>> \/ b = <<>> THEN 0
    ELSE IF Head(a) = Head(b) THEN CaseCompare(Tail(a), Tail(b))
    ELSE IF Head(a) = ToLower(Head(a)) THEN -1
    ELSE 1

LocaleCompare(a, b) ==
    IF PrimaryCompare(a, b) # 0 THEN PrimaryCompare(a, b) ELSE CaseCompare(a, b)

\* stacks.sort((a, b) => a.name.localeCompare(b.name)): a stable sort
RECURSIVE InsertSorted(_, _)
InsertSorted(sorted, x) ==
    IF sorted = <<>> THEN <<x>>
    ELSE IF LocaleCompare(x.name, Head(sorted).name) < 0 THEN <<x>> \o sorted
    ELSE <<Head(sorted)>> \o InsertSorted(Tail(sorted), x)

RECURSIVE SortStacks(_)
SortStacks(stks) ==
    IF stks = <<>> THEN <<>>
    ELSE InsertSorted(SortStacks(SubSeq(stks, 1, Len(stks) - 1)), stks[Len(stks)])

NamesOf(stks) == {stks[i].name : i \in 1..Len(stks)}

\* stacks.filter(keep)
RECURSIVE FilterStacks(_, _)
FilterStacks(stks, names) ==
    IF stks = <<>> THEN <<>>
    ELSE (IF Head(stks).name \in names THEN <<Head(stks)>> ELSE <<>>)
         \o FilterStacks(Tail(stks), names)

ClosedModal ==
    [open |-> FALSE, stacks |-> <<>>, selected |-> {}, checked |-> <<>>,
     closedBy |-> "none"]

\* new StackSelectionModal(...).open(): every stack selected; onOpen sorts
\* the stacks and shows one checkbox per stack
OpenModal(missing) ==
    [open |-> TRUE, stacks |-> SortStacks(missing), selected |-> NamesOf(missing),
     checked |-> [i \in 1..Len(missing) |-> TRUE], closedBy |-> "none"]

modalFrame ==
    UNCHANGED <<envVars, req, pc, notices, stacks, task, updatedCount, vault, writes,
                existingStackNames, missingStacks, cr, createRet, pendingFm,
                skipped, aiCalls, aiLog>>

\* the change handler of the checkbox of the stack at index i
ToggleSelection(i) ==
    /\ modal.open
    /\ i \in 1..Len(modal.stacks)
    /\ LET name == modal.stacks[i].name
           sel == IF name \in modal.selected THEN modal.selected \ {name}
                  ELSE modal.selected \cup {name}
       IN modal' = [modal EXCEPT !.selected = sel, !.checked[i] = name \in sel]
    /\ modalFrame

\* refreshCheckboxes
RefreshCheckboxes(m) ==
    [m EXCEPT !.checked = [i \in 1..Len(m.stacks) |-> m.stacks[i].name \in m.selected]]

SelectAll ==
    /\ modal.open
    /\ modal' = RefreshCheckboxes([modal EXCEPT !.selected = NamesOf(modal.stacks)])
    /\ modalFrame

SelectNone ==
    /\ modal.open
    /\ modal' = RefreshCheckboxes([modal EXCEPT !.selected = {}])
    /\ modalFrame

\* Cancel: this.close()
Cancel ==
    /\ modal.open
    /\ modal' = [modal EXCEPT !.open = FALSE, !.closedBy = "cancel"]
    /\ pc' = "done"
    /\ UNCHANGED <<envVars, req, notices, stacks, task, updatedCount, vault, writes,
                   existingStackNames, missingStacks, cr, createRet, pendingFm,
                   skipped, aiCalls, aiLog>>

\* a dialog that hands over every stack it shows
AllStackObjects(m) == m.stacks

\* what Create Selected hands to onSubmit
SelectedStackObjects(m) == FilterStacks(m.stacks, m.selected)

\* Create Selected: onSubmit(selectedStackObjects), then this.close().  The
\* callback of the command returns at once on an empty selection, and else
\* calls createNotesFromTemplate.
CreateSelected ==
    /\ modal.open
    /\ modal' = [modal EXCEPT !.open = FALSE, !.closedBy = "create"]
    /\ LET selectedStacks == SelectedStackObjects(modal)
       IN IF Len(selectedStacks) = 0
          THEN /\ notices' = Append(notices, <<"No stacks selected for creation.", 0>>)
               /\ pc' = "done"
               /\ UNCHANGED <<cr, createRet>>
          ELSE CreateNotesFromTemplate(selectedStacks)
    /\ UNCHANGED <<envVars, req, stacks, task, updatedCount, vault, writes,
                   existingStackNames, missingStacks, pendingFm, skipped,
                   aiCalls, aiLog>>

----------------------------------------------------------------------------
(* ObsidianService.findMissingStacks and the create-missing command        *)

\* stacks.filter((stack) => !existingStackNames.has(stack.name))
RECURSIVE MissingOfReversed(_, _)
RECURSIVE MissingOf(_, _)
\* a filter that hands its matches back last first
MissingOfReversed(stks, existing) ==
    IF stks = <<>> THEN <<>>
    ELSE MissingOfReversed(Tail(stks), existing)
         \o (IF Head(stks).name \notin existing THEN <<Head(stks)>> ELSE <<>>)

MissingOf(stks, existing) ==
    IF stks = <<>> THEN <<>>
    ELSE (IF Head(stks).name \notin existing THEN <<Head(stks)>> ELSE <<>>)
         \o MissingOf(Tail(stks), existing)

\* await Promise.all(frontmatterPromises), the filter, and what the command
\* does with the missing stacks, once every task of t has settled
MissingJoin(t, existing, stks) ==
    IF Settled(t)
    THEN LET missing == MissingOf(stks, existing)
         IN /\ missingStacks' = <<missing>>
            /\ IF Len(missing) = 0
               THEN /\ notices' = Append(notices,
                         <<"All Docker stacks already have corresponding notes.", 0>>)
                    /\ pc' = "done"
                    /\ modal' = modal
               ELSE /\ notices' = notices
                    /\ pc' = "modal"
                    /\ modal' = OpenModal(missing)
    ELSE /\ pc' = "missing"
         /\ UNCHANGED <<missingStacks, notices, modal>>

\* findMissingStacks(stacks) up to its await: one task per note
FindMissingStacks(stks) ==
    LET t == [p \in GetMarkdownFiles |-> StartTask(p)]
    IN /\ task' = t
       /\ existingStackNames' = {}
       /\ MissingJoin(t, {}, stks)
       /\ UNCHANGED <<updatedCount, vault, writes, cr, createRet, pendingFm,
                      skipped, aiCalls, aiLog>>

\* what the task of a note adds to existingStackNames
ExistingNameOf(fm) ==
    IF HasKey(fm, settings.frontmatterProperty)
    THEN {fm[settings.frontmatterProperty]} ELSE {}

\* processFrontMatter calls the callback of getFrontmatter for note p
MissingFrontmatter(p) ==
    /\ pc = "missing"
    /\ p \in DOMAIN task
    /\ task[p].pc = "fm"
    /\ vault[p].fmHost = "ok"
    /\ LET t == [task EXCEPT ![p] = Done(TRUE)]
           existing == existingStackNames \cup ExistingNameOf(vault[p].fm)
       IN /\ task' = t
          /\ existingStackNames' = existing
          /\ MissingJoin(t, existing, stacks)
    /\ UNCHANGED <<envVars, req, stacks, updatedCount, vault, writes, cr, createRet,
                   pendingFm, skipped, aiCalls, aiLog>>

----------------------------------------------------------------------------
(* GithubService.fetchAllComposeStackFiles and the commands' first steps   *)

ListReq(d) == <<"list", d>>
GetReq(f) == <<"get", f>>

Issue(r, new) == [x \in DOMAIN r \cup new |-> IF x \in DOMAIN r THEN r[x] ELSE "pending"]

\* filePaths.map(...) of fetchAllComposeStackFiles when every fetch succeeds
RECURSIVE StackFiles(_, _)
StackFiles(rem, filePaths) ==
    IF filePaths = <<>> THEN <<>>
    ELSE <<[name |-> StackNameOf(Head(filePaths)), content |-> rem[Head(filePaths)]]>>
         \o StackFiles(rem, Tail(filePaths))

\* the command goes on with the fetched stacks
FetchResolved(stks) ==
    /\ stacks' = stks
    /\ IF Len(stks) = 0
       THEN /\ notices' = Append(notices, <<"No Docker stacks found.", 0>>)
            /\ pc' = "done"
            /\ UNCHANGED <<task, updatedCount, vault, writes, createVars>>
       ELSE IF cmd = "sync"
       THEN CheckNotesForMatchingStacks(stks) /\ UNCHANGED createVars
       ELSE FindMissingStacks(stks)

\* the stacks of the files fetched so far
FetchedSoFar ==
    SelectSeq(FetchComposeYamlFiles(DOMAIN remote, <<>>),
              LAMBDA f : GetReq(f) \in DOMAIN req /\ req[GetReq(f)] = "ok")

\* a command that goes on with the files it could fetch
FetchFailedGoesOn == FetchResolved(StackFiles(remote, FetchedSoFar))

\* the catch block of the command
FetchFailed ==
    /\ notices' = Append(notices,
          IF cmd = "sync" THEN <<"Failed to fetch file content from GitHub.", 0>>
          ELSE <<"Failed to create Docker notes. Check console for details.", 0>>)
    /\ pc' = "done"
    /\ UNCHANGED <<stacks, task, updatedCount, vault, writes, createVars>>

\* The response to the listing of directory d (fetchComposeYamlFiles(d)).
\* On success the sub-directories are listed in parallel; when the last
\* listing of the tree is in, fetchAllComposeStackFiles fetches every
\* matching file in parallel.  A non-ok status throws.
ListResponse(d) ==
    /\ d \in RemoteDirs(DOMAIN remote)
    /\ ListReq(d) \in DOMAIN req
    /\ req[ListReq(d)] = "pending"
    /\ \E ok \in BOOLEAN :
         IF ~ok
         THEN /\ req' = [req EXCEPT ![ListReq(d)] = "fail"]
              /\ IF pc = "fetch" THEN FetchFailed
                 ELSE UNCHANGED <<cmdVars, createVars>>
         ELSE LET fs == DOMAIN remote
                  r1 == Issue([req EXCEPT ![ListReq(d)] = "ok"],
                              {ListReq(e) : e \in SubDirs(fs, d)})
                  listed == \A x \in DOMAIN r1 : r1[x] = "ok"
                  filePaths == FetchComposeYamlFiles(fs, <<>>)
              IN IF pc = "fetch" /\ listed
                 THEN /\ req' = Issue(r1, {GetReq(filePaths[i]) : i \in 1..Len(filePaths)})
                      /\ IF filePaths = <<>> THEN FetchResolved(<<>>)
                         ELSE UNCHANGED <<cmdVars, createVars>>
                 ELSE /\ req' = r1
                      /\ UNCHANGED <<cmdVars, createVars>>
    /\ UNCHANGED envVars

\* The response to the fetch of file f (fetchGithubFileContent(f)).
ContentResponse(f) ==
    /\ f \in DOMAIN remote
    /\ GetReq(f) \in DOMAIN req
    /\ req[GetReq(f)] = "pending"
    /\ \E ok \in BOOLEAN :
         LET r1 == [req EXCEPT ![GetReq(f)] = IF ok THEN "ok" ELSE "fail"]
         IN /\ req' = r1
            /\ IF pc # "fetch"
               THEN UNCHANGED <<cmdVars, createVars>>
               ELSE IF ~ok THEN FetchFailed
               ELSE IF \A x \in DOMAIN r1 : r1[x] = "ok"
               THEN FetchResolved(StackFiles(remote, FetchComposeYamlFiles(DOMAIN remote, <<>>)))
               ELSE UNCHANGED <<cmdVars, createVars>>
    /\ UNCHANGED envVars

----------------------------------------------------------------------------
(* Initial states: the command has just been triggered and the listing of  *)
(* the repository root has been requested                                  *)

\* a function from the pairs <<key, value>> of a set with distinct keys
FromPairs(pairs) ==
    [k \in {e[1] : e \in pairs} |-> (CHOOSE e \in pairs : e[1] = k)[2]]

DistinctKeys(pairs) == \A e1, e2 \in pairs : e1[1] = e2[1] => e1 = e2

\* the functions made of at most n pairs of a catalogue
Choices(catalogue, n) ==
    {FromPairs(S) : S \in {T \in SUBSET catalogue : Cardinality(T) <= n /\ DistinctKeys(T)}}

PathA == <<"a", SLASH, COMPOSE>>
PathB == <<"B", SLASH, COMPOSE>>
PathUpperA == <<"A", SLASH, COMPOSE>>
PathAA == <<"a", SLASH, "a", SLASH, COMPOSE>>

\* note texts
Block(header, body) == <<FENCE, header, NL>> \o body \o <<NL, FENCE>>
TextNormal == Block(NormalHeader, <<"o">>)
TextVariant ==
    <<"t", NL, FENCE, "yml title=docker-compose.yml", CR, NL, "o", NL, FENCE, NL, "t">>
TextPlain == <<"t">>
TextTwoBlocks == TextNormal \o <<NL>> \o Block("yml title=compose.yml", <<"p">>)
TextMidLine == <<"t">> \o TextNormal \o <<NL>> \o TextNormal
TextUpperCase == Block("YAML title=compose.yaml", <<"o">>)

NoFm == <<>>
Fm(name) == StackNameKey :> name

NotePathIn(dir, name) == <<dir, SLASH, name, MD>>

\* the notes a vault may hold
NoteCatalogue ==
    { <<NotePathIn("d", "n1"), File(TextNormal, Fm(<<"a">>), "ok")>>,
      <<NotePathIn("d", "n2"), File(TextVariant, Fm(<<"B">>), "ok")>>,
      <<NotePathIn("d", "n3"), File(TextPlain, Fm(<<"a">>), "ok")>>,
      <<NotePathIn("d", "n4"), File(TextNormal, NoFm, "ok")>>,
      <<NotePathIn("d", "n5"), File(TextTwoBlocks, Fm(<<"A">>), "ok")>>,
      <<NotePathIn("e", "n6"), File(TextNormal, Fm(<<"a">>), "ok")>>,
      <<NotePathIn("d", "n7"), File(TextNormal, Fm(<<"a">>), "rejects")>>,
      <<NotePathIn("d", "n8"), File(TextNormal, Fm(<<"a">>), "throws")>>,
      <<NotePathIn("d", "n9"), File(TextMidLine, Fm(<<"a">>), "ok")>>,
      <<NotePathIn("d", "n10"), File(TextUpperCase, Fm(<<"a">>), "ok")>>,
      <<NotePathIn("d", "n11"), File(TextNormal, Fm(<<>>), "ok")>> }

\* the files a repository may hold
RemoteCatalogue ==
    {<<PathA, c>> : c \in Contents}
    \cup { <<PathB, <<"x">>>>, <<PathUpperA, <<"x">>>>, <<PathAA, <<"z">>>>,
           <<PathAA, <<>>>>,
           <<<<"a", SLASH, "readme">>, <<"r">>>>,
           <<<<"a", SLASH, "docker", "-", COMPOSE>>, <<"x">>>>,
           <<<<COMPOSE>>, <<"x">>>> }

\* the repositories of the specifications that vary the vault
FewRemotes ==
    {FromPairs({<<PathA, c>>}) : c \in Contents}
    \cup {FromPairs({<<PathA, c>>, <<PathB, <<"x">>>>}) : c \in {<<"x">>, <<SP, "y", NL>>}}
    \cup { FromPairs({}),
           FromPairs({<<PathA, <<"x">>>>, <<PathAA, <<"z">>>>}),
           FromPairs({<<PathA, <<"x">>>>, <<PathAA, <<>>>>}),
           FromPairs({<<PathUpperA, <<"x">>>>, <<PathB, <<"x">>>>}) }

TemplateFile == <<"tpl", MD>>

DefaultSettings ==
    [folderPath |-> <<>>, frontmatterProperty |-> StackNameKey,
     templateFilePath |-> <<>>, useAI |-> FALSE, openaiApiKey |-> <<>>,
     fileNamePrefix |-> <<>>, fileNameSuffix |-> <<>>]

\* no text function is applied on its own
NoCall ==
    [fn |-> "none", step |-> 0, template |-> <<>>,
     stack |-> [name |-> <<>>, content |-> <<>>], out |-> <<>>, again |-> <<>>]

\* a command has just been triggered
InitProgram(commands, settingsSet, vaults, remotes) ==
    /\ cmd \in commands
    /\ settings \in settingsSet
    /\ vault \in vaults
    /\ vault0 = vault
    /\ remote \in remotes
    /\ req = (ListReq(<<>>) :> "pending")
    /\ pc = "fetch"
    /\ notices = <<>>
    /\ stacks = <<>>
    /\ task = <<>>
    /\ updatedCount = <<>>
    /\ writes = {}
    /\ existingStackNames = {}
    /\ missingStacks = <<>>
    /\ modal = ClosedModal
    /\ cr = IdleCr
    /\ createRet = <<>>
    /\ pendingFm = {}
    /\ skipped = {}
    /\ aiCalls = 0
    /\ aiLog = {}

InitWith(commands, settingsSet, vaults, remotes) ==
    /\ call = NoCall
    /\ InitProgram(commands, settingsSet, vaults, remotes)

FolderSettings ==
    {[DefaultSettings EXCEPT !.folderPath = f] : f \in {<<>>, <<"d">>, <<SP, "d", SP>>}}

FetchSteps == (\E d \in RemoteDirs(DOMAIN remote) : ListResponse(d))
              \/ (\E f \in DOMAIN remote : ContentResponse(f))

\* the sync command
InitSync == InitWith({"sync"}, FolderSettings, Choices(NoteCatalogue, MaxNotes), FewRemotes)

NextSync ==
    \/ FetchSteps
    \/ \E p \in DOMAIN vault : SyncFrontmatter(p)
    \/ \E p \in DOMAIN vault : SyncRead(p)
    \/ \E p \in DOMAIN vault : SyncModify(p)

SpecSync == InitSync /\ [][NextSync]_vars

\* the create-missing command up to the opening of the modal
InitMissing == InitWith({"create"}, FolderSettings, Choices(NoteCatalogue, MaxNotes), FewRemotes)

NextMissing ==
    \/ FetchSteps
    \/ \E p \in DOMAIN vault : MissingFrontmatter(p)

SpecMissing == InitMissing /\ [][NextMissing]_vars

\* the create-missing command
TemplateText ==
    <<"#", STACKNAME, NL, ABOUT, NL>> \o Block("yml title=compose.yml", <<"o">>)
TemplateTextContent == <<STACKNAME, NL, STACKCONTENT>>

TagsFm == TagsKey :> <<>>

TemplateCatalogue ==
    { <<TemplateFile, File(TemplateText, TagsFm, "ok")>>,
      <<TemplateFile, File(TemplateTextContent, NoFm, "ok")>>,
      <<TemplateFile, File(TemplateText, TagsFm, "throws")>>,
      <<TemplateFile, File(TemplateText, TagsFm, "rejects")>> }

\* notes and folders that lie where a new note would go, or that already
\* carry a stack's name
DestinationCatalogue ==
    { <<NotePathIn("d", "A"), File(TextNormal, NoFm, "ok")>>,
      <<NotePathIn("d", "B"), Folder>>,
      <<NotePathIn("d", "n1"), File(TextNormal, Fm(<<"a">>), "ok")>>,
      <<<<"d">>, Folder>> }

CreateVaults ==
    {FromPairs({t} \cup S) : t \in TemplateCatalogue,
                             S \in {T \in SUBSET DestinationCatalogue :
                                      Cardinality(T) <= MaxNotes}}

CreateRemotes ==
    { FromPairs({<<PathA, <<"x">>>>}),
      FromPairs({<<PathA, <<SP, "y", NL>>>>, <<PathB, <<"x">>>>}),
      FromPairs({<<PathA, <<"x">>>>, <<PathUpperA, <<"$", "$">>>>}),
      FromPairs({<<<<"a", SLASH, "readme">>, <<"x">>>>}),
      FromPairs({<<PathA, <<"x">>>>, <<PathAA, <<"z">>>>}) }

InFolder == [DefaultSettings EXCEPT !.folderPath = <<"d">>]

CreateSettings ==
    {[InFolder EXCEPT !.templateFilePath = t] :
        t \in {<<>>, <<SP>>, <<"gone", MD>>, <<"d">>}}
    \cup {[InFolder EXCEPT !.templateFilePath = t, !.useAI = TRUE, !.openaiApiKey = k] :
            t \in {TemplateFile, <<SP>> \o TemplateFile \o <<SP>>},
            k \in {<<>>, <<SP>>, <<SP, "k">>}}
    \cup {[InFolder EXCEPT !.templateFilePath = TemplateFile],
          [InFolder EXCEPT !.templateFilePath = TemplateFile,
                           !.fileNamePrefix = <<DATEYEAR, "-">>]}

InitCreate == InitWith({"create"}, CreateSettings, CreateVaults, CreateRemotes)

ModalSteps ==
    \/ \E i \in 1..Len(modal.stacks) : ToggleSelection(i)
    \/ SelectAll
    \/ SelectNone
    \/ Cancel
    \/ CreateSelected

CreateSteps ==
    \/ TemplateRead
    \/ TemplateFrontmatter
    \/ DescribeResponse
    \/ CreateResponse
    \/ TagsResponse
    \/ \E op \in pendingFm : FrontMatterWritten(op)

NextCreate ==
    \/ FetchSteps
    \/ \E p \in DOMAIN vault : MissingFrontmatter(p)
    \/ ModalSteps
    \/ CreateSteps

SpecCreate == InitCreate /\ [][NextCreate]_vars

\* both commands, over the repositories of at most MaxFiles files
FetchVaults ==
    { FromPairs({<<TemplateFile, File(TemplateText, TagsFm, "ok")>>,
                 <<NotePathIn("d", "n1"), File(TextNormal, Fm(<<"a">>), "ok")>>,
                 <<NotePathIn("d", "n2"), File(TextVariant, Fm(<<"B">>), "ok")>>}) }

Init ==
    InitWith({"sync", "create"},
             {[InFolder EXCEPT !.templateFilePath = TemplateFile, !.useAI = TRUE,
                               !.openaiApiKey = <<"k">>]},
             FetchVaults, Choices(RemoteCatalogue, MaxFiles))

Next ==
    \/ FetchSteps
    \/ \E p \in DOMAIN vault : SyncFrontmatter(p)
    \/ \E p \in DOMAIN vault : SyncRead(p)
    \/ \E p \in DOMAIN vault : SyncModify(p)
    \/ \E p \in DOMAIN vault : MissingFrontmatter(p)
    \/ ModalSteps
    \/ CreateSteps

Spec == Init /\ [][Next]_vars

----------------------------------------------------------------------------
(* The text functions of ObsidianService, each applied on its own          *)

\* headers the regular expression rejects: upper-case language tags and
\* another title
OtherHeaders ==
    {"YAML title=compose.yaml", "Yml title=docker-compose.yml", "yaml title=other.yaml"}

TextHeaders == ComposeHeaders \cup OtherHeaders

\* a document with two fenced blocks
TwoBlocks(h1, h2) ==
    <<"t", NL>> \o Block(h1, <<"o">>) \o <<NL, "t", NL>> \o Block(h2, <<"p">>) \o <<NL>>

FewHeaders == {NormalHeader, "yml title=docker-compose.yml", "YAML title=compose.yaml"}

\* templates and note texts
Documents ==
    {Block(h, <<"o">>) : h \in TextHeaders}
    \cup {TwoBlocks(h1, h2) : h1, h2 \in FewHeaders}
    \cup { TemplateText, TemplateTextContent, TextVariant, TextPlain, TextMidLine,
           <<STACKCONTENT, NL>> \o TextNormal \o <<NL, STACKCONTENT>>,
           <<DATE, NL, DATEYEAR, NL, ABOUT, NL>> \o TextNormal }

\* contents of a compose file
TextContents == Contents \cup {<<"$", "&">>, <<"x", STACKNAME>>}

\* stack names
TextNames ==
    { <<"a">>, <<"A", "-", "b">>, <<"a", "_", "B", SP, "x">>, <<"-", "a">>,
      <<"a", "B">>, <<"a", "-", "_", "b", "-">>, <<"Docker", "-", "Compose.yaml">>,
      <<"__unknown__">> }

\* the prefix and suffix settings
TextSettings ==
    {[DefaultSettings EXCEPT !.fileNamePrefix = p, !.fileNameSuffix = q] :
        p \in {<<>>, <<DATEYEAR, "-">>, <<DATE, SP>>}, q \in {<<>>, <<"-", DATE>>}}

\* the calls the specification starts from
Calls ==
    {[NoCall EXCEPT !.fn = f, !.template = d, !.stack = [name |-> <<"a">>, content |-> c]] :
        f \in {"processTemplate", "processYamlCodeBlocks", "updateYamlCodeBlock"},
        d \in Documents, c \in TextContents}
    \cup {[NoCall EXCEPT !.fn = "generateFileName",
                         !.stack = [name |-> n, content |-> <<>>]] : n \in TextNames}

programFrame ==
    UNCHANGED <<settings, remote, vault0, cmd, req, cmdVars, createVars>>

\* processTemplate(template, stack) with useAI off
ApplyProcessTemplate ==
    /\ call.fn = "processTemplate"
    /\ call.step = 0
    /\ call' = [call EXCEPT !.step = 1,
                   !.out = RenderRest(RenderContent(call.template, call.stack),
                                      call.stack, Placeholder)]
    /\ programFrame

\* processYamlCodeBlocks(template, stackContent), then once more on its
\* result
ApplyProcessYamlCodeBlocks ==
    /\ call.fn = "processYamlCodeBlocks"
    /\ \/ /\ call.step = 0
          /\ call' = [call EXCEPT !.step = 1,
                         !.out = ProcessYamlCodeBlocks(call.template, call.stack.content)]
       \/ /\ call.step = 1
          /\ call' = [call EXCEPT !.step = 2,
                         !.again = ProcessYamlCodeBlocks(call.out, call.stack.content)]
    /\ programFrame

\* what updateYamlCodeBlock leaves in a file of the given text
FileAfterUpdate(content, newContent) ==
    IF HasComposeBlock(content) THEN UpdatedContent(content, newContent) ELSE content

\* updateYamlCodeBlock(file, newContent), then once more on the same file
ApplyUpdateYamlCodeBlock ==
    /\ call.fn = "updateYamlCodeBlock"
    /\ \/ /\ call.step = 0
          /\ call' = [call EXCEPT !.step = 1,
                         !.out = FileAfterUpdate(call.template, call.stack.content)]
       \/ /\ call.step = 1
          /\ call' = [call EXCEPT !.step = 2,
                         !.again = FileAfterUpdate(call.out, call.stack.content)]
    /\ programFrame

\* generateFileName(stack.name) for the preview of the modal, then for the
\* creation of the note
ApplyGenerateFileName ==
    /\ call.fn = "generateFileName"
    /\ \/ /\ call.step = 0
          /\ call' = [call EXCEPT !.step = 1,
                         !.out = GenerateFileName(call.stack.name,
                                    settings.fileNamePrefix, settings.fileNameSuffix)]
       \/ /\ call.step = 1
          /\ call' = [call EXCEPT !.step = 2,
                         !.again = GenerateFileName(call.stack.name,
                                    settings.fileNamePrefix, settings.fileNameSuffix)]
    /\ programFrame

InitText ==
    /\ call \in Calls
    /\ InitProgram({"create"}, TextSettings, {FromPairs({})}, {FromPairs({})})

NextText ==
    \/ ApplyProcessTemplate
    \/ ApplyProcessYamlCodeBlocks
    \/ ApplyUpdateYamlCodeBlock
    \/ ApplyGenerateFileName

SpecText == InitText /\ [][NextText]_vars

----------------------------------------------------------------------------
(* Claims                                                                  *)

\* the candidate notes of the run and what they were when it started
Candidates == GetMarkdownFiles
DesignatedKey == settings.frontmatterProperty

\* the indices of the fetched stacks a note names
StacksNamedBy(file) ==
    {i \in 1..Len(stacks) :
        DesignatedKey \in DOMAIN file.fm /\ file.fm[DesignatedKey] = stacks[i].name}

\* a text whose first matching block has been replaced by the normalized
\* block holding the content, trimmed
BlockRewritten(text, content) ==
    LET i == NextBlock(text, 1)
    IN SubSeq(text, 1, i - 1) \o NewCodeBlock(content)
       \o SubSeq(text, BlockEnd(text, i) + 1, Len(text))

\* C1: once the sync has returned, every candidate note whose frontmatter
\* value at the configured key is the name of a fetched stack and whose text
\* holds a matching block (and whose reads and writes the host did not fail)
\* has been counted and holds the block rewritten with that stack's content,
\* whatever the content is.
C1_EveryMatchingNoteIsRewritten ==
    updatedCount # <<>> =>
        \A p \in Candidates :
            ( /\ vault0[p].fmHost = "ok"
              /\ StacksNamedBy(vault0[p]) # {}
              /\ HasComposeBlock(vault0[p].text)
              /\ task[p].pc # "error" )
            => /\ task[p].pc = "true"
               /\ \E i \in StacksNamedBy(vault0[p]) :
                    vault[p].text = BlockRewritten(vault0[p].text, stacks[i].content)

\* the notes the sync wrote
Rewritten == {p \in DOMAIN vault : <<"modify", p>> \in writes}

\* a note the sync has no reason to touch: no key, no fetched stack of that
\* name, or no matching block
NotToRewrite(p) ==
    \/ DesignatedKey \notin DOMAIN vault0[p].fm
    \/ StacksNamedBy(vault0[p]) = {}
    \/ ~HasComposeBlock(vault0[p].text)

\* C2: the sync returns exactly the number of notes it rewrote, whatever the
\* order in which the per-note tasks ran, and every note that lacks the key,
\* names no fetched stack or has no matching block is as it was before.
C2_CountIsRewrittenNotes ==
    /\ updatedCount # <<>> => updatedCount[1] = Cardinality(Rewritten)
    /\ \A p \in DOMAIN vault0 :
         NotToRewrite(p) => p \in DOMAIN vault /\ vault[p] = vault0[p]

\* the sync returned having rewritten one note and left alone another
\* candidate note, one that has no key or no block
C2_Witness ==
    /\ updatedCount # <<>>
    /\ updatedCount[1] >= 1
    /\ \E p \in Candidates : task[p].pc = "false" /\ NotToRewrite(p)

\* the values the host read at the configured key from the candidate notes
KeyValuesRead ==
    {vault0[p].fm[DesignatedKey] :
        p \in {q \in Candidates : /\ vault0[q].fmHost = "ok"
                                  /\ DesignatedKey \in DOMAIN vault0[q].fm}}

\* the stacks of a list, in its order, whose name is in no set of values
RECURSIVE NotCarried(_, _)
NotCarried(stks, values) ==
    IF stks = <<>> THEN <<>>
    ELSE IF Head(stks).name \in values THEN NotCarried(Tail(stks), values)
    ELSE <<Head(stks)>> \o NotCarried(Tail(stks), values)

\* C3: findMissing returns exactly the fetched stacks, in fetched order,
\* whose name is the value at the configured key of no candidate note (of
\* those whose frontmatter the host read).
C3_MissingAreTheStacksWithoutNote ==
    missingStacks # <<>> => missingStacks[1] = NotCarried(stacks, KeyValuesRead)

\* findMissing returned some of the fetched stacks and not all of them
C3_Witness ==
    /\ missingStacks # <<>>
    /\ Len(missingStacks[1]) >= 1
    /\ Len(missingStacks[1]) < Len(stacks)
    /\ KeyValuesRead # {}

\* the notes created so far
Created == {p \in DOMAIN vault : <<"create", p>> \in writes}

\* the stacks handed to createNotesFromTemplate are among the missing ones
SelectionFromMissing ==
    /\ missingStacks # <<>>
    /\ \A i \in 1..Len(cr.sel) :
         \E j \in 1..Len(missingStacks[1]) : cr.sel[i] = missingStacks[1][j]

\* the runs of the create-missing command in which nothing is to be created
NothingToCreate ==
    \/ pc # "fetch" /\ stacks = <<>>
    \/ missingStacks = << <<>> >>
    \/ modal.closedBy = "cancel"
    \/ modal.closedBy = "create" /\ modal.selected = {}

\* C4: in the create-missing command, createNotesFromTemplate is called only
\* after the user confirmed the dialog, with a selection that is not empty and
\* holds missing stacks of the run only, and notes are created by that call
\* only; after a fetch of zero stacks, with no stack missing, after a cancel
\* or after an empty selection, it is not called and the vault is untouched.
C4_CreationOnlyOnConfirmedSelection ==
    /\ cr.cpc # "idle" =>
         /\ modal.closedBy = "create"
         /\ Len(cr.sel) > 0
         /\ SelectionFromMissing
    /\ Created # {} => cr.cpc # "idle"
    /\ NothingToCreate => cr.cpc = "idle" /\ vault = vault0 /\ writes = {}

\* a note was created for a selection smaller than the missing set
C4_Witness ==
    /\ Created # {}
    /\ modal.closedBy = "create"
    /\ Len(cr.sel) < Len(missingStacks[1])

\* C5: createNotesFromTemplate leaves every file that was in the vault as it
\* was, a stack whose destination path is taken is skipped and no note is
\* created for it in its place, and the skipped stacks are not in the count.
C5_ExistingFilesAreKept ==
    /\ \A p \in DOMAIN vault0 : p \in DOMAIN vault /\ vault[p] = vault0[p]
    /\ \A i \in skipped :
         /\ DestinationPath(cr.sel[i]) \in DOMAIN vault
         /\ DestinationPath(cr.sel[i]) \in Created =>
              \E j \in 1..(i - 1) :
                  DestinationPath(cr.sel[j]) = DestinationPath(cr.sel[i])
    /\ createRet # <<>> => createRet[1] <= Len(cr.sel) - Cardinality(skipped)

\* the call returned after it skipped a stack whose destination was a file
\* of the vault
C5_Witness ==
    /\ createRet # <<>>
    /\ \E i \in skipped : DestinationPath(cr.sel[i]) \in DOMAIN vault0

\* the notes for which every step took effect: created, and holding the
\* name of a selected stack of that destination at the configured key
FullyCreated ==
    {p \in Created :
        /\ DesignatedKey \in DOMAIN vault[p].fm
        /\ \E i \in 1..Len(cr.sel) :
             /\ DestinationPath(cr.sel[i]) = p
             /\ vault[p].fm[DesignatedKey] = cr.sel[i].name}

\* C6: once createNotesFromTemplate has returned and the host has finished
\* the frontmatter writes it was asked for, the returned count is the number
\* of stacks for which every creation step succeeded.
C6_CountIsFullyCreatedNotes ==
    (createRet # <<>> /\ pendingFm = {}) => createRet[1] = Cardinality(FullyCreated)

\* the template named by the settings when the command started
TemplateUsable == TemplateConfigured /\ IsFile(vault0, TemplatePath)

\* C7: when the configured template path is empty once trimmed, or names no
\* file, createNotesFromTemplate returns 0 whatever the selection is, and no
\* note is created or modified.
C7_NoTemplateNoNotes ==
    (cr.cpc # "idle" /\ ~TemplateUsable) =>
        /\ createRet = <<0>>
        /\ cr.cpc = "returned"
        /\ vault = vault0
        /\ writes = {}

\* the call returned 0 for two selected stacks, the template path naming a
\* file that is not there
C7_Witness ==
    /\ createRet = <<0>>
    /\ Len(cr.sel) >= 2
    /\ TemplateConfigured
    /\ ~TemplateUsable

\* C8: once a listing or a file request has answered with a status that is
\* not a success, the command holds no stack, not even those of the files
\* already fetched, it has stopped with the failure notice and no note has
\* been modified or created.
C8_FailedRequestAbortsTheCommand ==
    (\E r \in DOMAIN req : req[r] = "fail") =>
        /\ stacks = <<>>
        /\ pc = "done"
        /\ task = <<>>
        /\ cr.cpc = "idle"
        /\ vault = vault0
        /\ writes = {}
        /\ notices[Len(notices)] \in
             { <<"Failed to fetch file content from GitHub.", 0>>,
               <<"Failed to create Docker notes. Check console for details.", 0>> }

\* a file request failed after another one had succeeded
C8_Witness ==
    \E r1, r2 \in DOMAIN req :
        /\ r1[1] = "get" /\ req[r1] = "fail"
        /\ r2[1] = "get" /\ req[r2] = "ok"

\* C9: while findMissing waits for the frontmatter of the candidate notes,
\* some step is still to come: the call goes on to its return even when the
\* host fails to read the frontmatter of a note.
C9_FindMissingGoesOn ==
    pc = "missing" => ENABLED NextMissing

\* what describe and tags fall back to
FallbackOf(fn) == IF fn = "describe" THEN Placeholder ELSE <<>>

\* C10: no call of describe or tags raises; without a credential (empty or
\* white space only) each returns its fallback and no request is made, and
\* when the generation call fails each returns its fallback.
C10_GenerationNeverRaises ==
    /\ \A e \in aiLog :
         /\ ~e.raised
         /\ e.failed => e.value = FallbackOf(e.fn)
         /\ ~HasApiKey => ~e.network /\ e.value = FallbackOf(e.fn)
    /\ ~HasApiKey => aiCalls = 0

\* in one run the generation call failed for a description and for the tags
C10_Witness ==
    \E e1, e2 \in aiLog :
        /\ e1.fn = "describe" /\ e1.failed
        /\ e2.fn = "tags" /\ e2.failed

\* what a token of a template stands for once rendered with useAI off, the
\* stack's content and name taken as they are
RenderedToken(t, stack) ==
    CASE t = STACKCONTENT -> stack.content
      [] t = STACKNAME    -> stack.name
      [] t = ABOUT        -> Placeholder
      [] t = DATE         -> NowDefault
      [] t = DATEYEAR     -> NowYear
      [] OTHER            -> <<t>>

\* a template with every placeholder replaced and nothing else changed
RECURSIVE RenderedVerbatim(_, _)
RenderedVerbatim(template, stack) ==
    IF template = <<>> THEN <<>>
    ELSE RenderedToken(Head(template), stack) \o RenderedVerbatim(Tail(template), stack)

\* C11: for a template that holds {{stackContent}}, the output of
\* processTemplate is the template with the stack's content, character for
\* character, in place of every {{stackContent}}, and with its fenced blocks
\* as they were.
C11_StackContentVerbatim ==
    ( /\ call.fn = "processTemplate"
      /\ call.step = 1
      /\ Includes(call.template, <<STACKCONTENT>>) )
    => call.out = RenderedVerbatim(call.template, call.stack)

\* the headers of the claim: a yaml or yml tag in either letter case, then
\* title= and one of the four names
HeadersEitherCase == ComposeHeaders \cup {"YAML title=compose.yaml", "Yml title=docker-compose.yml"}

\* the normalized block of a content
NormalizedBlock(content) ==
    <<FENCE, "yaml title=compose.yaml", NL>> \o Trim(content) \o <<NL, FENCE>>

\* C12: for a template without {{stackContent}} that is one fenced block
\* with such a header, the output of processTemplate is that block with the
\* tag yaml, the title compose.yaml and the trimmed stack content as body.
C12_BlockIsNormalized ==
    \A h \in HeadersEitherCase :
        ( /\ call.fn = "processTemplate"
          /\ call.step = 1
          /\ call.template = Block(h, <<"o">>) )
        => call.out = NormalizedBlock(call.stack.content)

\* C13: the fenced-block rule, applied to its own result with the same
\* stack content, gives that result again, for processYamlCodeBlocks and for
\* updateYamlCodeBlock.
C13_BlockRuleIdempotent ==
    ( /\ call.fn \in {"processYamlCodeBlocks", "updateYamlCodeBlock"}
      /\ call.step = 2 )
    => call.again = call.out

\* the last segment of the directory of a path, the sentinel when the path
\* has no directory
ParentDirectoryName(path) ==
    IF LastSlash(path) = 0 THEN <<"__unknown__">> ELSE BaseName(DirOf(path))

\* C14: the stacks fetchAllComposeStackFiles resolves with are those of the
\* listed files, in order, each named after the parent directory of its
\* file, or __unknown__ for a file at the root of the repository.
C14_StackNamedAfterParentDirectory ==
    stacks # <<>> =>
        LET filePaths == FetchComposeYamlFiles(DOMAIN remote, <<>>)
        IN /\ Len(stacks) = Len(filePaths)
           /\ \A i \in 1..Len(stacks) :
                stacks[i].name = ParentDirectoryName(filePaths[i])

\* a prefix or suffix with its date variables replaced
RECURSIVE DateProcessed(_)
DateProcessed(s) ==
    IF s = <<>> THEN <<>>
    ELSE (CASE Head(s) = DATE     -> NowDefault
            [] Head(s) = DATEYEAR -> NowYear
            [] OTHER              -> <<Head(s)>>) \o DateProcessed(Tail(s))

\* a name from its index i on: each run of "-", "_" and white space becomes
\* one space, the first letter after a run (or at the start) is in upper
\* case and every other letter in lower case
RECURSIVE CapitalizedFrom(_, _)
CapitalizedFrom(name, i) ==
    IF i > Len(name) THEN <<>>
    ELSE LET startsRunOrWord == i = 1 \/ IsNameSeparator(name[i - 1])
             here == IF IsNameSeparator(name[i])
                     THEN (IF i > 1 /\ IsNameSeparator(name[i - 1]) THEN <<>> ELSE <<SP>>)
                     ELSE IF startsRunOrWord THEN <<UpperFirst(name[i])>>
                     ELSE <<ToLower(name[i])>>
         IN here \o CapitalizedFrom(name, i + 1)

\* C15: generateFileName returns the date-processed prefix, the capitalized
\* name, the date-processed suffix and ".md", and the name computed for the
\* preview of the modal is the name computed at creation.
C15_FileNameShape ==
    call.fn = "generateFileName" =>
        /\ call.step >= 1 =>
             /\ call.out = DateProcessed(settings.fileNamePrefix)
                           \o CapitalizedFrom(call.stack.name, 1)
                           \o DateProcessed(settings.fileNameSuffix) \o <<".md">>
             /\ call.out[Len(call.out)] = ".md"
        /\ call.step = 2 => call.again = call.out

\* the name of a stack with runs of separators and an upper-case letter
\* inside a word was computed twice, with a dated prefix
C15_Witness ==
    /\ call.fn = "generateFileName"
    /\ call.step = 2
    /\ call.stack.name \in {<<"a", "-", "_", "b", "-">>, <<"a", "B">>}
    /\ settings.fileNamePrefix = <<DATEYEAR, "-">>

\* the matching blocks of a text, as the texts they span, found left to
\* right from index from on
RECURSIVE MatchingBlocksFrom(_, _)
MatchingBlocksFrom(text, from) ==
    LET i == NextBlock(text, from)
    IN IF i = 0 THEN <<>>
       ELSE <<SubSeq(text, i, BlockEnd(text, i))>>
            \o MatchingBlocksFrom(text, BlockEnd(text, i) + 1)
MatchingBlocks(text) == MatchingBlocksFrom(text, 1)

\* the notes the sync rewrote that held several matching blocks
RewrittenWithSeveralBlocks ==
    {p \in Rewritten : Len(MatchingBlocks(vault0[p].text)) >= 2}

\* what follows the first matching block of a text
AfterFirstBlock(text) ==
    SubSeq(text, BlockEnd(text, NextBlock(text, 1)) + 1, Len(text))

EndsWith(s, tail) ==
    Len(tail) <= Len(s) /\ SubSeq(s, Len(s) - Len(tail) + 1, Len(s)) = tail

\* C16 as claimed: a note with several matching blocks that the sync has
\* rewritten holds the normalized block of a stack it names in the place of
\* every one of them.
C16_EveryBlockReplaced ==
    updatedCount # <<>> =>
        \A p \in RewrittenWithSeveralBlocks :
            \E i \in StacksNamedBy(vault0[p]) :
                /\ Len(MatchingBlocks(vault[p].text)) = Len(MatchingBlocks(vault0[p].text))
                /\ \A k \in 1..Len(MatchingBlocks(vault[p].text)) :
                     MatchingBlocks(vault[p].text)[k] = NormalizedBlock(stacks[i].content)

\* C16 as amended: the sync makes its replacement no later than the first
\* matching block of a note, and whatever follows that block, every later
\* matching block included, is left as it was.
C16_LaterBlocksKept ==
    \A p \in Rewritten :
        /\ EndsWith(vault[p].text, AfterFirstBlock(vault0[p].text))
        /\ \A k \in 2..Len(MatchingBlocks(vault0[p].text)) :
             /\ k <= Len(MatchingBlocks(vault[p].text))
             /\ MatchingBlocks(vault[p].text)[k] = MatchingBlocks(vault0[p].text)[k]

\* the sync returned after it rewrote a note that held two matching blocks
C16_Witness ==
    /\ updatedCount # <<>>
    /\ RewrittenWithSeveralBlocks # {}

\* the calls of processTemplate that have returned for a template of two
\* blocks under the headers h1 and h2
RenderedTwoBlocks(h1, h2) ==
    /\ call.fn = "processTemplate"
    /\ call.step = 1
    /\ call.template = TwoBlocks(h1, h2)

\* the template of two blocks with the given blocks in their places
TwoBlocksAs(b1, b2) == <<"t", NL>> \o b1 \o <<NL, "t", NL>> \o b2 \o <<NL>>

\* C17 as claimed: of two matching blocks in a template without
\* {{stackContent}}, processTemplate replaces the first by the normalized
\* block and leaves the second as it was.
C17_OnlyFirstBlockReplaced ==
    \A h1, h2 \in ComposeHeaders :
        RenderedTwoBlocks(h1, h2) =>
            call.out = RenderedVerbatim(
                           TwoBlocksAs(NormalizedBlock(call.stack.content),
                                       Block(h2, <<"p">>)),
                           call.stack)

\* C17 as amended: processTemplate replaces every matching block of a
\* template without {{stackContent}} by the normalized block, the second of
\* two as well as the first; the placeholder passes that follow run over the
\* result.
C17_EveryBlockReplaced ==
    \A h1, h2 \in ComposeHeaders :
        RenderedTwoBlocks(h1, h2) =>
            call.out = RenderedVerbatim(
                           TwoBlocksAs(NormalizedBlock(call.stack.content),
                                       NormalizedBlock(call.stack.content)),
                           call.stack)

\* processTemplate has returned for a template of two matching blocks
C17_Witness ==
    /\ RenderedTwoBlocks(NormalHeader, "yml title=docker-compose.yml")
    /\ call.stack.content = <<"x">>

\* C18: no two read-modify-write operations on the same note are in
\* flight at the same time: of the processFrontMatter calls that have started
\* and not completed, no two are on the same note.
C18_OneOperationInFlightPerNote ==
    \A o1, o2 \in pendingFm : o1.path = o2.path => o1 = o2

\* the notes that name a stack fetched more than once
NamesSeveralStacks == {p \in DOMAIN vault0 : Cardinality(StacksNamedBy(vault0[p])) >= 2}

FirstNamedBy(file) == CHOOSE i \in StacksNamedBy(file) : \A j \in StacksNamedBy(file) : i <= j
LastNamedBy(file) == CHOOSE i \in StacksNamedBy(file) : \A j \in StacksNamedBy(file) : j <= i

\* C19 as claimed: a note that names a stack fetched more than once is
\* rewritten with the content of the first stack of that name in the fetched
\* list.
C19_FirstOfTheNameWins ==
    \A p \in NamesSeveralStacks \cap Rewritten :
        vault[p].text =
            UpdatedContent(vault0[p].text, stacks[FirstNamedBy(vault0[p])].content)

\* C19 as amended: a note that names a stack fetched more than once is
\* rewritten with the content of the last stack of that name in the fetched
\* list: that content is the one its task takes from the map and the one
\* updateYamlCodeBlock rewrites the note with.
C19_LastOfTheNameWins ==
    \A p \in NamesSeveralStacks :
        /\ (p \in DOMAIN task /\ task[p].pc \in {"read", "modify"})
             => task[p].newContent = stacks[LastNamedBy(vault0[p])].content
        /\ p \in Rewritten
             => vault[p].text =
                    UpdatedContent(vault0[p].text, stacks[LastNamedBy(vault0[p])].content)

\* the sync returned after it rewrote a note that names two fetched stacks
\* of different contents
C19_Witness ==
    /\ updatedCount # <<>>
    /\ \E p \in NamesSeveralStacks \cap Rewritten :
         stacks[FirstNamedBy(vault0[p])].content # stacks[LastNamedBy(vault0[p])].content

\* the stacks of a dialog whose checkbox is shown checked, in the order shown
RECURSIVE ShownCheckedFrom(_, _)
ShownCheckedFrom(m, i) ==
    IF i > Len(m.stacks) THEN <<>>
    ELSE (IF m.checked[i] THEN <<m.stacks[i]>> ELSE <<>>) \o ShownCheckedFrom(m, i + 1)
ShownChecked(m) == ShownCheckedFrom(m, 1)

\* C20: from the moment the dialog opens with every stack checked, and after
\* every toggle, Select All and Select None, the stacks Create Selected hands
\* to the submit callback are the presented stacks whose checkbox is shown
\* checked, also when two presented stacks share a name.
C20_SubmittedAreTheCheckedStacks ==
    modal.open => SelectedStackObjects(modal) = ShownChecked(modal)

\* the names a findMissingStacks that starts now would collect: the values
\* at the configured key of the candidate notes
NamesOfCandidates ==
    UNION {ExistingNameOf(vault[p].fm) : p \in GetMarkdownFiles}

\* the selected stacks createNotesFromTemplate counted a note for, in the
\* runs in which it counted every selected stack
CountedStacks ==
    IF createRet # <<>> /\ createRet[1] = Len(cr.sel) THEN 1..Len(cr.sel) ELSE {}

\* C21: once createNotesFromTemplate has returned and the host has finished
\* the frontmatter writes it was asked for, every stack it counted a note for
\* has its note among the candidate notes, with the stack's name at the
\* configured key, so that findMissingStacks over the same stacks does not
\* return it.
C21_CountedStacksAreNoLongerMissing ==
    pendingFm = {} =>
        \A i \in CountedStacks :
            /\ DestinationPath(cr.sel[i]) \in GetMarkdownFiles
            /\ cr.sel[i].name \in NamesOfCandidates
            /\ \A k \in 1..Len(MissingOf(stacks, NamesOfCandidates)) :
                 MissingOf(stacks, NamesOfCandidates)[k].name # cr.sel[i].name

====
